---- MODULE Spec2Model ----
(***************************************************************************)
(* refstack/api/app.py: the app factory setup_app and the two pecan hooks  *)
(* it registers, JSONErrorHook (on_error) and CORSHook (after), driven by  *)
(* a small number of concurrent requests that share the hook instances.    *)
(***************************************************************************)
EXTENDS Integers, Sequences, FiniteSets, TLC

VARIABLES CONF, config_file, hooks, state, log

vars == <<CONF, config_file, hooks, state, log>>

\* Number of requests in flight over the lifetime of the app.
NumRequests == 2

Requests == 1..NumRequests

\* Python's None. It is equal to no header value and to no configured origin.
None == "<None>"

(***************************************************************************)
(* Configuration: the [api] options the hooks read.                        *)
(***************************************************************************)

\* API_OPTS defaults of the two options read by the hooks.
API_OPTS_defaults ==
    [allowed_cors_origins |-> <<>>, app_dev_mode |-> FALSE]

\* Origins that occur in configuration files and in requests.
OriginA == "https://a.example"
OriginB == "https://b.example"
OriginAUpper == "HTTPS://A.EXAMPLE"

\* The [api] section of the configuration file found at start-up: each of
\* the two options is either absent or set.
ConfigFiles ==
    { f @@ g :
        f \in {<<>>, ("app_dev_mode" :> TRUE)},
        g \in {<<>>, ("allowed_cors_origins" :> <<OriginA, OriginB>>)} }

\* CONF('', project='refstack', default_config_files=...): every option
\* takes the file's value when the file sets it, its default otherwise.
CONF_call(conf, file) ==
    [api |-> [opt \in DOMAIN conf.api |->
                IF opt \in DOMAIN file THEN file[opt] ELSE conf.api[opt]]]

(***************************************************************************)
(* Exceptions and isinstance.                                              *)
(***************************************************************************)

\* The classes an exception class derives from (itself included).
MRO(cls) ==
    CASE cls = "HTTPNotFound" ->
            {"HTTPNotFound", "HTTPClientError", "HTTPError",
             "WSGIHTTPException", "Exception"}
      [] cls = "HTTPInternalServerError" ->
            {"HTTPInternalServerError", "HTTPServerError", "HTTPError",
             "WSGIHTTPException", "Exception"}
      [] cls = "HTTPFound" ->
            {"HTTPFound", "HTTPRedirection", "WSGIHTTPException", "Exception"}
      [] cls = "ValidationError" -> {"ValidationError", "Exception"}
      [] cls = "RuntimeError" -> {"RuntimeError", "Exception"}
      [] OTHER -> {}

isinstance(exc, cls) == cls \in MRO(exc.cls)

\* The exceptions a controller raises. str is str(exc).
Exceptions ==
    { [cls |-> "HTTPNotFound", status_int |-> 404, title |-> "Not Found",
       str |-> "The resource could not be found."],
      [cls |-> "HTTPInternalServerError", status_int |-> 500,
       title |-> "Internal Server Error",
       str |-> "The server has either erred or is incapable of performing the requested operation."],
      [cls |-> "HTTPFound", status_int |-> 302, title |-> "Found",
       str |-> "The resource was found at /v1/results"],
      [cls |-> "ValidationError", title |-> "Malformed request url",
       str |-> "Malformed request url(ValueError: bad uuid)"],
      [cls |-> "RuntimeError", str |-> "database connection refused"] }

\* No exception was raised while handling the request.
NoException == [cls |-> "NoException"]

(***************************************************************************)
(* json.dumps / json.loads and webob.Response.                             *)
(***************************************************************************)

\* The order in which the keys of a body are written.
KeyOrder == <<"title", "code", "detail", "test_id">>

\* json.dumps(body): the members of the JSON object, in order.
RECURSIVE json_dumps_from(_, _)
json_dumps_from(body, i) ==
    IF i > Len(KeyOrder) THEN <<>>
    ELSE IF KeyOrder[i] \in DOMAIN body
         THEN <<[key |-> KeyOrder[i], value |-> body[KeyOrder[i]]]>>
                 \o json_dumps_from(body, i + 1)
         ELSE json_dumps_from(body, i + 1)

json_dumps(body) == json_dumps_from(body, 1)

\* json.loads(text): the mapping a client decodes from the members.
json_loads(text) ==
    [k \in { text[i].key : i \in DOMAIN text } |->
        (CHOOSE m \in { text[i] : i \in DOMAIN text } : m.key = k).value]

\* webob.Response(body=..., status=..., content_type=...)
webob_Response(body, status, content_type) ==
    [status |-> status, body |-> body,
     headers |-> ("Content-Type" :> content_type)]

(***************************************************************************)
(* JSONErrorHook.                                                          *)
(***************************************************************************)

\* JSONErrorHook.__init__
JSONErrorHook_init(conf) ==
    [cls |-> "JSONErrorHook", debug |-> conf.api.app_dev_mode]

\* LOG.exception(exc): one record at error severity.
LOG_exception(exc) == [level |-> "ERROR", msg |-> exc.str, exc_info |-> exc.cls]

\* Variant: every HTTP error answered as 400.
http_error_branch_fixed_status(exc) ==
    [status_code |-> 400, body |-> ("title" :> exc.title), logged |-> {}]

\* if isinstance(exc, webob.exc.HTTPError): ...
http_error_branch(exc) ==
    [status_code |-> exc.status_int, body |-> ("title" :> exc.title),
     logged |-> {}]

\* Variant: the validation error's own title dropped.
validation_error_branch_generic_title(exc) ==
    [status_code |-> 400, body |-> ("title" :> "Bad Request"), logged |-> {}]

\* elif isinstance(exc, validators.ValidationError): ...
validation_error_branch(exc) ==
    [status_code |-> 400, body |-> ("title" :> exc.title), logged |-> {}]

\* Variant: the unclassified error is not logged.
unclassified_branch_silent(exc) ==
    [status_code |-> 500, body |-> ("title" :> "Internal Server Error"),
     logged |-> {}]

\* else: LOG.exception(exc) ...
unclassified_branch(exc) ==
    [status_code |-> 500, body |-> ("title" :> "Internal Server Error"),
     logged |-> {LOG_exception(exc)}]

\* The if / elif / else of on_error.
on_error_classify(exc) ==
    IF isinstance(exc, "HTTPError") THEN http_error_branch(exc)
    ELSE IF isinstance(exc, "ValidationError") THEN validation_error_branch(exc)
    ELSE unclassified_branch(exc)

\* Variant: detail added whatever self.debug is.
on_error_detail_always(self, body, exc) == body @@ ("detail" :> exc.str)

\* if self.debug: body['detail'] = str(exc)
on_error_detail(self, body, exc) ==
    IF self.debug THEN ("detail" :> exc.str) @@ body ELSE body

\* Variant: an unclassified error leaves on_error.
on_error_reraise_unclassified(self, exc) ==
    LET c == on_error_classify(exc)
        body == on_error_detail(self, ("code" :> c.status_code) @@ c.body, exc)
    IN  [self |-> self,
         raised |-> ~isinstance(exc, "HTTPError")
                       /\ ~isinstance(exc, "ValidationError"),
         logged |-> c.logged,
         response |-> webob_Response(json_dumps(body), c.status_code,
                                     "application/json")]

\* Variant: on_error switches self.debug on after a 500.
on_error_sticky_debug(self, exc) ==
    LET c == on_error_classify(exc)
        body == on_error_detail(self, ("code" :> c.status_code) @@ c.body, exc)
    IN  [self |-> [self EXCEPT !.debug = self.debug \/ c.status_code = 500],
         raised |-> FALSE,
         logged |-> c.logged,
         response |-> webob_Response(json_dumps(body), c.status_code,
                                     "application/json")]

\* JSONErrorHook.on_error(self, state, exc): the hook after the call, the
\* records logged, whether an exception left the call, and the response
\* returned.
JSONErrorHook_on_error(self, exc) ==
    LET c == on_error_classify(exc)
        body == on_error_detail(self, ("code" :> c.status_code) @@ c.body, exc)
    IN  [self |-> self,
         raised |-> FALSE,
         logged |-> c.logged,
         response |-> webob_Response(json_dumps(body), c.status_code,
                                     "application/json")]

(***************************************************************************)
(* CORSHook.                                                               *)
(***************************************************************************)

\* CORSHook.__init__
CORSHook_init(conf) ==
    [cls |-> "CORSHook",
     allowed_origins |-> IF "allowed_cors_origins" \in DOMAIN conf.api
                         THEN conf.api.allowed_cors_origins ELSE <<>>]

\* state.request.headers.get(name, default)
headers_get(headers, name, default) ==
    IF name \in DOMAIN headers THEN headers[name] ELSE default

\* str.lower on the origins above.
lower(s) == IF s = OriginAUpper THEN OriginA ELSE s

\* Variant: origins compared without regard to case.
in_list_ignoring_case(x, list) ==
    \E i \in DOMAIN list : lower(list[i]) = lower(x)

\* x in list
in_list(x, list) == \E i \in DOMAIN list : list[i] = x

\* The three headers set on a match.
cors_headers(origin) ==
    ("Access-Control-Allow-Origin" :> origin)
    @@ ("Access-Control-Allow-Methods" :> "GET, OPTIONS, PUT, POST")
    @@ ("Access-Control-Allow-Headers" :>
            "origin, authorization, accept, content-type")

\* Variant: an empty allow-list admits every origin.
after_empty_list_allows_all(self, st) ==
    LET origin == headers_get(st.request.headers, "Origin", None)
    IN  IF in_list(origin, self.allowed_origins)
           \/ (origin # None /\ self.allowed_origins = <<>>)
        THEN [st EXCEPT !.response.headers = cors_headers(origin) @@ @]
        ELSE st

\* Variant: only responses below 400 are decorated.
after_only_successful(self, st) ==
    LET origin == headers_get(st.request.headers, "Origin", None)
    IN  IF in_list(origin, self.allowed_origins) /\ st.response.status < 400
        THEN [st EXCEPT !.response.headers = cors_headers(origin) @@ @]
        ELSE st

\* CORSHook.after(self, state): the state after the call.
CORSHook_after(self, st) ==
    LET origin == headers_get(st.request.headers, "Origin", None)
    IN  IF in_list(origin, self.allowed_origins)
        THEN [st EXCEPT !.response.headers = cors_headers(origin) @@ @]
        ELSE st

(***************************************************************************)
(* setup_app.                                                              *)
(***************************************************************************)

\* pecan.hooks.RequestViewerHook({'items': [...]}, headers=False, ...)
RequestViewerHook ==
    [cls |-> "RequestViewerHook",
     items |-> <<"status", "method", "controller", "path", "body">>,
     headers |-> FALSE]

\* Variant: the hooks are constructed before CONF(...) is called.
setup_app_hooks_before_parse(conf, file) ==
    [CONF |-> CONF_call(conf, file),
     hooks |-> <<JSONErrorHook_init(conf), CORSHook_init(conf),
                 RequestViewerHook>>]

\* setup_app(config): CONF and the hook chain of the app it returns.
setup_app(conf, file) ==
    LET parsed == CONF_call(conf, file)
    IN  [CONF |-> parsed,
         hooks |-> <<JSONErrorHook_init(parsed), CORSHook_init(parsed),
                     RequestViewerHook>>]

(***************************************************************************)
(* The requests.                                                           *)
(***************************************************************************)

\* The headers of a request: without Origin, or with one of two origins.
RequestHeaders ==
    {<<>>} \cup { ("Origin" :> o) : o \in {OriginA, OriginAUpper} }

\* The response object a request starts with.
EmptyResponse ==
    [status |-> 200, body |-> <<>>, headers |-> ("Content-Type" :> "text/html")]

\* The response of a controller that returns normally.
ControllerResponses ==
    { [status |-> 201, body |-> json_dumps(("test_id" :> "42")),
       headers |-> ("Content-Type" :> "application/json")] }

NewState ==
    [pc |-> "new", request |-> [headers |-> <<>>], response |-> EmptyResponse,
     exc |-> NoException]

Init ==
    /\ CONF = [api |-> API_OPTS_defaults]
    /\ config_file \in ConfigFiles
    /\ hooks = <<>>
    /\ state = [r \in Requests |-> NewState]
    /\ log = {}

\* The app is built once, at start-up.
SetupApp ==
    /\ hooks = <<>>
    /\ LET app == setup_app(CONF, config_file)
       IN  /\ CONF' = app.CONF
           /\ hooks' = app.hooks
    /\ UNCHANGED <<config_file, state, log>>

\* A request is routed to a controller that returns a response.
RouteOk(r) ==
    /\ hooks # <<>>
    /\ state[r].pc = "new"
    /\ \E h \in RequestHeaders, resp \in ControllerResponses :
          state' = [state EXCEPT ![r] =
                      [pc |-> "after", request |-> [headers |-> h],
                       response |-> resp, exc |-> NoException]]
    /\ UNCHANGED <<CONF, config_file, hooks, log>>

\* A request is routed to a controller that raises.
RouteRaise(r) ==
    /\ hooks # <<>>
    /\ state[r].pc = "new"
    /\ \E h \in RequestHeaders, e \in Exceptions :
          state' = [state EXCEPT ![r] =
                      [pc |-> "on_error", request |-> [headers |-> h],
                       response |-> EmptyResponse, exc |-> e]]
    /\ UNCHANGED <<CONF, config_file, hooks, log>>

\* The on_error hooks run: JSONErrorHook.on_error answers.
OnError(r) ==
    /\ state[r].pc = "on_error"
    /\ LET res == JSONErrorHook_on_error(hooks[1], state[r].exc)
       IN  /\ hooks' = [hooks EXCEPT ![1] = res.self]
           /\ log' = log \cup { [thread |-> r, record |-> rec] :
                                   rec \in res.logged }
           /\ state' = [state EXCEPT ![r] =
                          IF res.raised
                          THEN [@ EXCEPT !.pc = "raised"]
                          ELSE [@ EXCEPT !.pc = "after",
                                         !.response = res.response]]
    /\ UNCHANGED <<CONF, config_file>>

\* The after hooks run: CORSHook.after decorates the response.
After(r) ==
    /\ state[r].pc = "after"
    /\ state' = [state EXCEPT ![r] =
                   [CORSHook_after(hooks[2], @) EXCEPT !.pc = "done"]]
    /\ UNCHANGED <<CONF, config_file, hooks, log>>

Next ==
    \/ SetupApp
    \/ \E r \in Requests : RouteOk(r)
    \/ \E r \in Requests : RouteRaise(r)
    \/ \E r \in Requests : OnError(r)
    \/ \E r \in Requests : After(r)

Spec == Init /\ [][Next]_vars

(***************************************************************************)
(* Properties.                                                             *)
(***************************************************************************)

\* on_error has answered request r.
Answered(r) == state[r].exc # NoException /\ state[r].pc \in {"after", "done"}

\* The body the client of request r decodes.
Body(r) == json_loads(state[r].response.body)

IsHTTPKind(e) == isinstance(e, "HTTPError")
IsValidation(e) == ~IsHTTPKind(e) /\ isinstance(e, "ValidationError")
IsUnclassified(e) == ~IsHTTPKind(e) /\ ~isinstance(e, "ValidationError")

Debug == hooks[1].debug

TitleCode == {"title", "code"}
TitleCodeMaybeDetail == IF Debug THEN {"title", "code", "detail"} ELSE TitleCode

CORSNames ==
    {"Access-Control-Allow-Origin", "Access-Control-Allow-Methods",
     "Access-Control-Allow-Headers"}

HasCORS(resp) == CORSNames \cap DOMAIN resp.headers # {}

\* The request's Origin is an exact element of the configured allow-list.
OriginAllowed(r) ==
    /\ "Origin" \in DOMAIN state[r].request.headers
    /\ \E i \in DOMAIN CONF.api.allowed_cors_origins :
          CONF.api.allowed_cors_origins[i] = state[r].request.headers["Origin"]

\* C1: an HTTP-kind error with status S and title T is answered with status
\* S and the body {title: T, code: S}, plus a detail field exactly when the
\* hook's debug flag is set.
C1_HTTPErrorVerbatim ==
    \A r \in Requests :
        (Answered(r) /\ IsHTTPKind(state[r].exc)) =>
            /\ state[r].response.status = state[r].exc.status_int
            /\ DOMAIN Body(r) = TitleCodeMaybeDetail
            /\ Body(r)["title"] = state[r].exc.title
            /\ Body(r)["code"] = state[r].exc.status_int

C1_Witness ==
    \E r \in Requests :
        /\ Answered(r) /\ Debug
        /\ state[r].exc.cls = "HTTPNotFound"
        /\ state[r].response.status = 404

\* C2 as stated: a validation error with title T is answered with status
\* 400 and a body that is exactly {title: T, code: 400}.
C2_ValidationBodyExact ==
    \A r \in Requests :
        (Answered(r) /\ IsValidation(state[r].exc)) =>
            /\ state[r].response.status = 400
            /\ Body(r) = ("title" :> state[r].exc.title) @@ ("code" :> 400)

\* C2 amended: a validation error with title T is answered with status 400
\* and the body {title: T, code: 400}, plus a detail field exactly when the
\* hook's debug flag is set.
C2_ValidationIs400 ==
    \A r \in Requests :
        (Answered(r) /\ IsValidation(state[r].exc)) =>
            /\ state[r].response.status = 400
            /\ DOMAIN Body(r) = TitleCodeMaybeDetail
            /\ Body(r)["title"] = state[r].exc.title
            /\ Body(r)["code"] = 400

C2_Witness ==
    \E r \in Requests :
        /\ Answered(r) /\ Debug
        /\ state[r].exc.cls = "ValidationError"
        /\ "detail" \in DOMAIN Body(r)

\* C3: an error that is neither HTTP-kind nor a validation error is answered
\* with status 500, title "Internal Server Error" and code 500; the body has
\* a detail field exactly when debug is on, the field is the error's string
\* form, and with debug off no field of the body is the error's string form.
C3_UnclassifiedIs500 ==
    \A r \in Requests :
        (Answered(r) /\ IsUnclassified(state[r].exc)) =>
            /\ state[r].response.status = 500
            /\ Body(r)["title"] = "Internal Server Error"
            /\ Body(r)["code"] = 500
            /\ ("detail" \in DOMAIN Body(r)) <=> Debug
            /\ Debug => Body(r)["detail"] = state[r].exc.str
            /\ ~Debug => \A k \in DOMAIN Body(r) \ {"code"} :
                            Body(r)[k] # state[r].exc.str

C3_Witness ==
    \E r \in Requests :
        /\ Answered(r) /\ ~Debug
        /\ state[r].exc.cls = "RuntimeError"
        /\ DOMAIN Body(r) = TitleCode

\* C4: once CORSHook.after has run, the response carries CORS headers
\* exactly when the request's Origin is an exact element of the configured
\* allow-list, and then with the request's origin and the two fixed values.
C4_CORSIffAllowed ==
    \A r \in Requests :
        state[r].pc = "done" =>
            /\ HasCORS(state[r].response) <=> OriginAllowed(r)
            /\ OriginAllowed(r) =>
                 /\ CORSNames \subseteq DOMAIN state[r].response.headers
                 /\ state[r].response.headers["Access-Control-Allow-Origin"]
                       = state[r].request.headers["Origin"]
                 /\ state[r].response.headers["Access-Control-Allow-Origin"] # "*"
                 /\ state[r].response.headers["Access-Control-Allow-Methods"]
                       = "GET, OPTIONS, PUT, POST"
                 /\ state[r].response.headers["Access-Control-Allow-Headers"]
                       = "origin, authorization, accept, content-type"

C4_Witness ==
    \E r, q \in Requests :
        /\ state[r].pc = "done" /\ state[q].pc = "done"
        /\ state[r].request.headers = ("Origin" :> OriginA)
        /\ HasCORS(state[r].response)
        /\ state[q].request.headers = ("Origin" :> OriginAUpper)
        /\ ~HasCORS(state[q].response)

\* C5: when the Origin does not match (absent, not in the list, or the list
\* empty), CORSHook.after leaves the whole response as it was; and with the
\* default allow-list no response ever carries a CORS header.
C5_NoMatchNoChange ==
    /\ [][\A r \in Requests :
            (state[r].pc = "after" /\ state'[r].pc = "done" /\ ~OriginAllowed(r))
                => state'[r].response = state[r].response]_vars
    /\ []("allowed_cors_origins" \notin DOMAIN config_file
            => \A r \in Requests : ~HasCORS(state[r].response))

C5_Witness ==
    /\ "allowed_cors_origins" \notin DOMAIN config_file
    /\ \E r, q \in Requests :
          /\ state[r].pc = "done" /\ state[q].pc = "done"
          /\ state[r].request.headers = ("Origin" :> OriginA)
          /\ state[q].request.headers = <<>>
          /\ state[q].exc # NoException

\* C6: on_error is the terminal error boundary: no error of any kind leaves
\* it, and what it returns has a status, a JSON body with title and code,
\* and content type application/json.
C6_TerminalBoundary ==
    \A r \in Requests :
        /\ state[r].pc # "raised"
        /\ Answered(r) =>
             /\ state[r].response.status \in 100..599
             /\ TitleCode \subseteq DOMAIN Body(r)
             /\ state[r].response.headers["Content-Type"] = "application/json"

C6_Witness ==
    \E r, q \in Requests :
        /\ Answered(r) /\ Answered(q)
        /\ state[r].exc.cls = "HTTPFound"
        /\ state[q].exc.cls = "ValidationError"

\* The CORS headers of a response.
CORSPart(resp) == [k \in CORSNames \cap DOMAIN resp.headers |-> resp.headers[k]]

\* C7: the CORS check runs after the response is final: a response waiting
\* for on_error carries no CORS header, an error response that has passed
\* CORSHook.after is still the JSON error response, and it carries the same
\* CORS headers as a success response to a request with the same Origin.
C7_CORSAfterErrorFormatting ==
    \A r \in Requests :
        /\ state[r].pc = "on_error" => ~HasCORS(state[r].response)
        /\ (state[r].pc = "done" /\ state[r].exc # NoException) =>
             /\ state[r].response.status >= 400
             /\ TitleCode \subseteq DOMAIN Body(r)
             /\ OriginAllowed(r) =>
                    CORSNames \subseteq DOMAIN state[r].response.headers
             /\ \A q \in Requests :
                   (/\ state[q].pc = "done" /\ state[q].exc = NoException
                    /\ state[q].request.headers = state[r].request.headers)
                     => CORSPart(state[q].response) = CORSPart(state[r].response)

C7_Witness ==
    \E r, q \in Requests :
        /\ state[r].pc = "done" /\ state[q].pc = "done"
        /\ state[r].exc.cls = "RuntimeError" /\ state[q].exc = NoException
        /\ state[r].request.headers = ("Origin" :> OriginA)
        /\ state[q].request.headers = ("Origin" :> OriginA)
        /\ HasCORS(state[r].response)

\* C8: on_error writes an error-severity log record exactly for the
\* unclassified errors, with debug on or off, and none for the others.
C8_LogIffUnclassified ==
    /\ { rec.thread : rec \in log }
          = { r \in Requests : Answered(r) /\ IsUnclassified(state[r].exc) }
    /\ \A rec \in log :
          /\ rec.record.level = "ERROR"
          /\ rec.record.msg = state[rec.thread].exc.str

C8_Witness ==
    \E r, q \in Requests :
        /\ Answered(r) /\ state[r].exc.cls = "RuntimeError"
        /\ ~Debug
        /\ Answered(q) /\ state[q].exc.cls = "HTTPInternalServerError"
        /\ Cardinality(log) = 1

\* C9: no hook call writes a field of a hook, and under every interleaving
\* two requests with the same error and the same Origin get the same
\* response, whatever else was handled in between.
C9_HooksStateless ==
    /\ [][hooks # <<>> => hooks' = hooks]_vars
    /\ [](\A r, q \in Requests :
            (/\ state[r].pc = "done" /\ state[q].pc = "done"
             /\ state[r].exc = state[q].exc
             /\ state[r].request = state[q].request
             /\ state[r].exc # NoException)
               => state[r].response = state[q].response)

C9_Witness ==
    \E r, q \in Requests :
        /\ r # q
        /\ state[r].pc = "done" /\ state[q].pc = "done"
        /\ state[r].exc = state[q].exc /\ state[r].exc.cls = "RuntimeError"
        /\ state[r].request = state[q].request

\* C10: once the app is built, the debug flag of JSONErrorHook and the
\* allow-list of CORSHook are the values the configuration file gives (the
\* defaults only for what the file leaves out), they are the values CONF
\* holds, and this stays so while requests are served.
C10_HooksHoldParsedConfig ==
    hooks # <<>> =>
        /\ hooks[1].debug = IF "app_dev_mode" \in DOMAIN config_file
                            THEN config_file["app_dev_mode"] ELSE FALSE
        /\ hooks[2].allowed_origins =
              IF "allowed_cors_origins" \in DOMAIN config_file
              THEN config_file["allowed_cors_origins"] ELSE <<>>
        /\ hooks[1].debug = CONF.api.app_dev_mode
        /\ hooks[2].allowed_origins = CONF.api.allowed_cors_origins

C10_Witness ==
    /\ hooks # <<>>
    /\ hooks[1].debug
    /\ hooks[2].allowed_origins = <<OriginA, OriginB>>
    /\ \A r \in Requests : state[r].pc = "done"

====
